---- MODULE Spec2Model ----
(***************************************************************************)
(* Model of the prescription text pipeline of MedScanAI_BackEnd:           *)
(*   parser.py  clean_ocr_lines, detect_timing, detect_duration,           *)
(*              find_medicine_name, parse_prescription                     *)
(*   app.py     calculate_savings and the order in which analyze() calls   *)
(*              the three stages.                                          *)
(* A Python str is a sequence of one-character strings, so that lower(),   *)
(* strip(), replace(), split(), the regular expressions and the substring  *)
(* tests are computed character by character as the interpreter does.      *)
(* A value that may be None is a set: {} is None and {v} is the value v.   *)
(***************************************************************************)
EXTENDS Integers, Sequences, FiniteSets, TLC

VARIABLES raw, k, cleaned, merged, again, npc,
          lines, i, meds, rng, pc, savings, requests, log

nvars == <<raw, k, cleaned, merged, again, npc>>
pvars == <<lines, i, meds, rng, pc, savings, requests, log>>
vars  == <<raw, k, cleaned, merged, again, npc,
           lines, i, meds, rng, pc, savings, requests, log>>

(***************************************************************************)
(* Bounds of the model.                                                    *)
(***************************************************************************)
MaxRaw == 3
MaxLines == 5
MaxRequests == 2
MaxOcr == 2

(***************************************************************************)
(* Python values and str primitives.                                       *)
(***************************************************************************)
None == {}
Some(v) == {v}
Val(o) == CHOOSE v \in o : TRUE

Digits == {"0", "1", "2", "3", "4", "5", "6", "7", "8", "9"}
LowerAlpha == {"a", "b", "c", "d", "e", "f", "g", "h", "i", "j", "k", "l", "m",
               "n", "o", "p", "q", "r", "s", "t", "u", "v", "w", "x", "y", "z"}
Whitespace == {" ", "\t"}

IsDigit(c) == c \in Digits
IsSpace(c) == c \in Whitespace

UpperAlpha == <<"A", "B", "C", "D", "E", "F", "G", "H", "I", "J", "K", "L", "M",
                "N", "O", "P", "Q", "R", "S", "T", "U", "V", "W", "X", "Y", "Z">>
LowerOf == <<"a", "b", "c", "d", "e", "f", "g", "h", "i", "j", "k", "l", "m",
             "n", "o", "p", "q", "r", "s", "t", "u", "v", "w", "x", "y", "z">>

\* str.lower on one character
LowerMap ==
    [c \in {UpperAlpha[u] : u \in 1..26} |->
        LowerOf[CHOOSE u \in 1..26 : UpperAlpha[u] = c]]

lower_char(c) == IF c \in DOMAIN LowerMap THEN LowerMap[c] ELSE c

lower(s) == [p \in 1..Len(s) |-> lower_char(s[p])]

RECURSIVE lstrip(_)
lstrip(s) == IF s # <<>> /\ IsSpace(s[1]) THEN lstrip(Tail(s)) ELSE s

RECURSIVE rstrip(_)
rstrip(s) ==
    IF s # <<>> /\ IsSpace(s[Len(s)]) THEN rstrip(SubSeq(s, 1, Len(s) - 1)) ELSE s

strip(s) == rstrip(lstrip(s))

StartsWith(s, sub) == Len(sub) <= Len(s) /\ SubSeq(s, 1, Len(sub)) = sub

\* Python: sub in s
Contains(s, sub) ==
    \E p \in 1..(Len(s) - Len(sub) + 1) : SubSeq(s, p, p + Len(sub) - 1) = sub

\* Python: s.replace(wrong, correct); wrong is never empty here
RECURSIVE replace(_, _, _)
replace(s, wrong, correct) ==
    IF s = <<>> THEN <<>>
    ELSE IF StartsWith(s, wrong)
         THEN correct \o replace(SubSeq(s, Len(wrong) + 1, Len(s)), wrong, correct)
         ELSE <<s[1]>> \o replace(Tail(s), wrong, correct)

isdigit(s) == s # <<>> /\ \A p \in 1..Len(s) : IsDigit(s[p])

\* Python: int(s) for a str of decimal digits
RECURSIVE int(_)
int(s) ==
    IF s = <<>> THEN 0
    ELSE 10 * int(SubSeq(s, 1, Len(s) - 1))
         + (CHOOSE d \in 0..9 : <<"0", "1", "2", "3", "4", "5", "6", "7", "8", "9">>[d + 1] = s[Len(s)])

RECURSIVE split_from(_, _)
split_from(s, cur) ==
    IF s = <<>> THEN <<cur>>
    ELSE IF s[1] = "-" THEN <<cur>> \o split_from(Tail(s), <<>>)
         ELSE split_from(Tail(s), Append(cur, s[1]))

\* Python: s.split("-")
split(s) == split_from(s, <<>>)

\* Python: "-".join(parts)
RECURSIVE join(_)
join(parts) ==
    IF parts = <<>> THEN <<>>
    ELSE IF Len(parts) = 1 THEN parts[1]
         ELSE parts[1] \o <<"-">> \o join(Tail(parts))

(***************************************************************************)
(* clean_ocr_lines: the per-line pass.                                     *)
(***************************************************************************)
garbage_words ==
    << <<"h", "o", "s", "p", "i", "t", "a", "l">>,
       <<"m", "b", "b", "s">>,
       <<"o", "b", "g">>,
       <<"g", "y", "n">>,
       <<"p", "a", "e", "d", "i", "a", "t", "r", "i", "c", "s">>,
       <<"o", "p", "p">>,
       <<"r", "o", "a", "d">>,
       <<"n", "a", "g", "a", "r">>,
       <<"r", "e", "d", "d", "y">>,
       <<"s", "u", "d", "h", "a">>,
       <<"d", "o", "c", "t", "o", "r">>,
       <<"d", "a", "t", "e">> >>

\* the dict keeps insertion order; each entry is <<wrong, correct>>
replacements ==
    << << <<"d", "o", "l", "o", "-">>, <<"d", "o", "l", "o", " ", "6", "5", "0">> >>,
       << <<"t", "o", "m", "b", "i", "f", "l", "a", "m">>, <<"c", "o", "m", "b", "i", "f", "l", "a", "m">> >>,
       << <<"c", "o", "m", "b", "i", "f", "l", "e", "m">>, <<"c", "o", "m", "b", "i", "f", "l", "a", "m">> >>,
       << <<"c", "o", "m", "b", "i", "l", "a", "m">>, <<"c", "o", "m", "b", "i", "f", "l", "a", "m">> >>,
       << <<"e", "p", "b", "i", "n">>, <<"e", "p", "t", "o", "i", "n">> >>,
       << <<"e", "p", "l", "o", "i", "n">>, <<"e", "p", "t", "o", "i", "n">> >>,
       << <<"i", "-", "0", "-", "1">>, <<"1", "-", "0", "-", "1">> >>,
       << <<"i", "-", "i", "-", "1">>, <<"1", "-", "1", "-", "1">> >>,
       << <<"l", "-", "0", "-", "1">>, <<"1", "-", "0", "-", "1">> >> >>

\* mutant of HasGarbage: exact comparison instead of the substring test
HasGarbage_exact(t) == \E g \in 1..Len(garbage_words) : t = garbage_words[g]

\* any(g in t for g in garbage_words)
HasGarbage(t) == \E g \in 1..Len(garbage_words) : Contains(t, garbage_words[g])

\* for wrong, correct in replacements.items(): t = t.replace(wrong, correct)
RECURSIVE ApplyReplacements(_, _)
ApplyReplacements(t, r) ==
    IF r > Len(replacements) THEN t
    ELSE ApplyReplacements(replace(t, replacements[r][1], replacements[r][2]), r + 1)

\* re.sub(r"[^a-z0-9\s-]", " ", t)
RemoveGarbageChars(t) ==
    [p \in 1..Len(t) |->
        IF t[p] \in LowerAlpha \/ IsDigit(t[p]) \/ IsSpace(t[p]) \/ t[p] = "-"
        THEN t[p] ELSE " "]

\* re.sub(r"\s+", " ", t)
RECURSIVE CollapseSpaces(_)
CollapseSpaces(t) ==
    IF t = <<>> THEN <<>>
    ELSE IF IsSpace(t[1])
         THEN <<" ">> \o CollapseSpaces(lstrip(t))
         ELSE <<t[1]>> \o CollapseSpaces(Tail(t))

Sanitise(t) == strip(CollapseSpaces(RemoveGarbageChars(t)))

Slot(c) == c \in {"0", "1", "2"}

\* re.fullmatch(r"[0-2]-[0-2]-?", t)
IsBrokenTiming(t) ==
    /\ Len(t) \in {3, 4}
    /\ Slot(t[1]) /\ t[2] = "-" /\ Slot(t[3])
    /\ Len(t) = 4 => t[4] = "-"

\* while len(parts) < 3: parts.append("1")
RECURSIVE PadParts(_)
PadParts(parts) == IF Len(parts) < 3 THEN PadParts(Append(parts, <<"1">>)) ELSE parts

FixTiming(t) == IF IsBrokenTiming(t) THEN join(PadParts(split(t))) ELSE t

\* one iteration of "for line in raw": None when the line is skipped,
\* otherwise the str appended to cleaned
CleanLine(line) ==
    LET t == strip(lower(line)) IN
    IF t = <<>> THEN None
    ELSE IF HasGarbage(t) THEN None
    ELSE LET f == FixTiming(Sanitise(ApplyReplacements(t, 1))) IN
         IF f # <<>> THEN Some(f) ELSE None

RECURSIVE CleanPass(_)
CleanPass(r) ==
    IF r = <<>> THEN <<>>
    ELSE LET c == CleanLine(r[1]) IN
         (IF c = None THEN <<>> ELSE <<Val(c)>>) \o CleanPass(Tail(r))

(***************************************************************************)
(* clean_ocr_lines: the merge pass.                                        *)
(***************************************************************************)
day == <<"d", "a", "y">>
days_suffix == <<" ", "d", "a", "y", "s">>

\* mutant of MergeFrom: the index advances by one after a merge
RECURSIVE MergeFrom_step1(_, _)
MergeFrom_step1(c, j) ==
    IF j > Len(c) THEN <<>>
    ELSE IF j + 1 <= Len(c) /\ isdigit(c[j]) /\ Contains(c[j + 1], day)
         THEN <<c[j] \o days_suffix>> \o MergeFrom_step1(c, j + 1)
         ELSE <<c[j]>> \o MergeFrom_step1(c, j + 1)

\* the while loop over cleaned; j is the (1-based) loop index
RECURSIVE MergeFrom(_, _)
MergeFrom(c, j) ==
    IF j > Len(c) THEN <<>>
    ELSE IF j + 1 <= Len(c) /\ isdigit(c[j]) /\ Contains(c[j + 1], day)
         THEN <<c[j] \o days_suffix>> \o MergeFrom(c, j + 2)
         ELSE <<c[j]>> \o MergeFrom(c, j + 1)

clean_ocr_lines(r) == MergeFrom(CleanPass(r), 1)

(***************************************************************************)
(* detect_timing and detect_duration.                                      *)
(***************************************************************************)
\* re.fullmatch(r"[0-2]-[0-2]-[0-2]", t)
IsTimingPattern(t) ==
    /\ Len(t) = 5
    /\ Slot(t[1]) /\ t[2] = "-" /\ Slot(t[3]) /\ t[4] = "-" /\ Slot(t[5])

detect_timing(line) ==
    LET t == lower(strip(line)) IN
    IF IsTimingPattern(t) THEN Some(t)
    ELSE IF t = <<"b", "d">> THEN Some(<<"1", "-", "0", "-", "1">>)
    ELSE IF t = <<"o", "d">> THEN Some(<<"1", "-", "0", "-", "0">>)
    ELSE IF t = <<"t", "d", "s">> THEN Some(<<"1", "-", "1", "-", "1">>)
    ELSE None

\* index of the last character of the run of digits that starts at p
RECURSIVE DigitRunEnd(_, _)
DigitRunEnd(t, p) ==
    IF p + 1 <= Len(t) /\ IsDigit(t[p + 1]) THEN DigitRunEnd(t, p + 1) ELSE p

\* first index at or after q that does not hold whitespace
RECURSIVE SkipSpaces(_, _)
SkipSpaces(t, q) ==
    IF q <= Len(t) /\ IsSpace(t[q]) THEN SkipSpaces(t, q + 1) ELSE q

\* (\d+)\s*day matches with the group starting at p
DayMatchAt(t, p) ==
    /\ IsDigit(t[p])
    /\ LET q == SkipSpaces(t, DigitRunEnd(t, p) + 1) IN
       q + 2 <= Len(t) /\ SubSeq(t, q, q + 2) = day

\* re.search(r"(\d+)\s*day", t): the group of the leftmost match, or None
SearchDays(t) ==
    IF \E p \in 1..Len(t) : DayMatchAt(t, p)
    THEN LET p == CHOOSE a \in 1..Len(t) :
                     DayMatchAt(t, a) /\ \A b \in 1..(a - 1) : ~DayMatchAt(t, b)
         IN Some(SubSeq(t, p, DigitRunEnd(t, p)))
    ELSE None

\* mutant of BareNumber: the range check 1 <= v <= 30 is missing
BareNumber_norange(t) ==
    IF Len(t) \in {1, 2} /\ isdigit(t) THEN Some(int(t)) ELSE None

\* re.fullmatch(r"(\d{1,2})", t) and 1 <= v <= 30
BareNumber(t) ==
    IF Len(t) \in {1, 2} /\ isdigit(t)
    THEN LET v == int(t) IN IF 1 <= v /\ v <= 30 THEN Some(v) ELSE None
    ELSE None

detect_duration(line) ==
    LET t == lower(line)
        m == SearchDays(t)
    IN IF m # None THEN Some(int(Val(m))) ELSE BareNumber(t)

\* truth value of an Optional[str] / Optional[int] in "if t:" and "not timing"
TruthyStr(o) == o # None /\ Val(o) # <<>>
TruthyInt(o) == o # None /\ Val(o) # 0

(***************************************************************************)
(* find_medicine_name.  med_list.csv is read at import; the table below is *)
(* a two-row instance of it.  The scorer is rapidfuzz's WRatio: the code   *)
(* only compares the best score with 88, so every score below the          *)
(* threshold is represented by 0.                                          *)
(***************************************************************************)
med_df ==
    << [brand |-> "Dolo 650", generic |-> "Paracetamol", price |-> 30],
       [brand |-> "Combiflam", generic |-> "Ibuprofen", price |-> 45] >>

canon_names ==
    << <<"d", "o", "l", "o", " ", "6", "5", "0">>,
       <<"c", "o", "m", "b", "i", "f", "l", "a", "m">> >>

WRatio(a, b) == IF a = b THEN 100 ELSE 0

\* process.extractOne(raw, canon_names, scorer=fuzz.WRatio): the index of the
\* best-scoring name, the first one on a tie
extractOne(t) ==
    LET idx == CHOOSE a \in 1..Len(canon_names) :
                   /\ \A b \in 1..Len(canon_names) :
                        WRatio(t, canon_names[b]) <= WRatio(t, canon_names[a])
                   /\ \A b \in 1..(a - 1) :
                        WRatio(t, canon_names[b]) < WRatio(t, canon_names[a])
    IN [score |-> WRatio(t, canon_names[idx]), idx |-> idx]

find_medicine_name(line) ==
    LET t == strip(lower(line)) IN
    IF Len(t) < 3 THEN None
    ELSE LET best == extractOne(t) IN
         IF best.score >= 88 THEN Some(best.idx) ELSE None

(***************************************************************************)
(* The module-level generator of "random".  Its state is the sequence of   *)
(* draws made since the last random.seed(42); the value of a draw is a     *)
(* function of the state it is made in, and is represented by that state.  *)
(***************************************************************************)
Seed42 == <<>>

RandomSample(pool, count, state) == [pool |-> pool, count |-> count, state |-> state]
RandomUniform(lo, hi, state) == [lo |-> lo, hi |-> hi, state |-> state]

AfterSample(state, pool) == Append(state, <<"sample", pool>>)
AfterUniform(state) == Append(state, <<"uniform">>)

(***************************************************************************)
(* parse_prescription: one iteration of "for i, line in enumerate(lines)". *)
(* ix is the 0-based index of the code; ls[ix + 1] is lines[ix].           *)
(***************************************************************************)
NoSlots == [timing |-> None, duration |-> None]

Min(a, b) == IF a <= b THEN a ELSE b
Max(a, b) == IF a >= b THEN a ELSE b

\* mutant of ForwardFrom: a slot set by line i+1 is kept when i+2 matches too
RECURSIVE ForwardFrom_firstwins(_, _, _, _)
ForwardFrom_firstwins(ls, j, hi, acc) ==
    IF j >= hi THEN acc
    ELSE LET t == detect_timing(ls[j + 1])
             d == detect_duration(ls[j + 1])
         IN ForwardFrom_firstwins(ls, j + 1, hi,
                [timing   |-> IF TruthyStr(t) /\ ~TruthyStr(acc.timing)
                              THEN t ELSE acc.timing,
                 duration |-> IF TruthyInt(d) /\ ~TruthyInt(acc.duration)
                              THEN d ELSE acc.duration])

\* for j in range(i+1, min(i+3, n)): j runs from the given j up to hi - 1
RECURSIVE ForwardFrom(_, _, _, _)
ForwardFrom(ls, j, hi, acc) ==
    IF j >= hi THEN acc
    ELSE LET t == detect_timing(ls[j + 1])
             d == detect_duration(ls[j + 1])
         IN ForwardFrom(ls, j + 1, hi,
                [timing   |-> IF TruthyStr(t) THEN t ELSE acc.timing,
                 duration |-> IF TruthyInt(d) THEN d ELSE acc.duration])

\* for j in range(max(0, i-2), i)
RECURSIVE BackwardFrom(_, _, _, _)
BackwardFrom(ls, j, hi, acc) ==
    IF j >= hi THEN acc
    ELSE LET t == detect_timing(ls[j + 1])
             d == detect_duration(ls[j + 1])
         IN BackwardFrom(ls, j + 1, hi,
                [timing   |-> IF TruthyStr(t) /\ ~TruthyStr(acc.timing)
                              THEN t ELSE acc.timing,
                 duration |-> IF TruthyInt(d) /\ ~TruthyInt(acc.duration)
                              THEN d ELSE acc.duration])

LookAround(ls, ix) ==
    BackwardFrom(ls, Max(0, ix - 2), ix,
                 ForwardFrom(ls, ix + 1, Min(ix + 3, Len(ls)), NoSlots))

\* mutant of SkipRecord: the candidate is never discarded
SkipRecord_never(slots) == FALSE

\* mutant of SkipRecord: "or" in place of "and"
SkipRecord_either(slots) == ~TruthyStr(slots.timing) \/ ~TruthyInt(slots.duration)

\* if not timing and not duration: continue
SkipRecord(slots) == ~TruthyStr(slots.timing) /\ ~TruthyInt(slots.duration)

DefaultTiming == <<"1", "-", "0", "-", "1">>
DefaultDuration == 5

\* the dict appended to meds; side_effects is sampled before avoid_mixing
Record(idx, slots, state) ==
    [brand        |-> med_df[idx].brand,
     generic      |-> med_df[idx].generic,
     price        |-> med_df[idx].price,
     timing       |-> IF TruthyStr(slots.timing) THEN Val(slots.timing) ELSE DefaultTiming,
     duration     |-> IF TruthyInt(slots.duration) THEN Val(slots.duration) ELSE DefaultDuration,
     side_effects |-> RandomSample("side_effect_pool", 3, state),
     avoid_mixing |-> RandomSample("avoid_pool", 2, AfterSample(state, "side_effect_pool"))]

\* the records added by iteration ix: none or one
Emitted(ls, ix, state) ==
    LET idx == find_medicine_name(ls[ix + 1]) IN
    IF idx = None THEN <<>>
    ELSE LET slots == LookAround(ls, ix) IN
         IF SkipRecord(slots) THEN <<>> ELSE <<Record(Val(idx), slots, state)>>

(***************************************************************************)
(* Inputs.                                                                 *)
(***************************************************************************)
SeqsUpTo(S, len) == UNION {[1..m -> S] : m \in 0..len}

\* raw OCR lines given to clean_ocr_lines
RawVocab ==
    { <<"C", "i", "t", "y", " ", "H", "o", "s", "p", "i", "t", "a", "l", " ", "M", "B", "B", "S">>,
      <<"d", "o", "l", "o", "-", "6", "5", "0">>,
      <<"1", "-", "0", "-">>,
      <<"2", "-", "1">>,
      <<"5">>,
      <<"d", "a", "y", "s", " ", "o", "f", " ", "r", "e", "s", "t">>,
      <<"t", "a", "b", "l", "e", "t", "s">>,
      <<"i", "-", "i", "-", "l", "-", "0", "-", "1">>,
      <<" ", "T", "a", "b", ".", " ", " ", "x", "!">>,
      <<" ", "*">> }

\* the raw lines of the end-to-end scenario
EndToEndRaw ==
    << <<"C", "i", "t", "y", " ", "H", "o", "s", "p", "i", "t", "a", "l", " ", "M", "B", "B", "S">>,
       <<"d", "o", "l", "o", "-", "6", "5", "0">>,
       <<"1", "-", "0", "-", "1">>,
       <<"5", " ", "d", "a", "y", "s">> >>

RawInputs == SeqsUpTo(RawVocab, MaxRaw) \cup {EndToEndRaw}

\* lines given to parse_prescription, normalised or not
LineVocab ==
    { <<"d", "o", "l", "o", " ", "6", "5", "0">>,
      <<"O", "D", " ">>,
      <<"0", "-", "2", "-", "1">>,
      <<"7", " ", "d", "a", "y", "s">>,
      <<"0", " ", "d", "a", "y", "s">>,
      <<"1", "2">>,
      <<"4", "5">> }

LineInputs == SeqsUpTo(LineVocab, MaxLines)

\* OCR results of the requests served by analyze()
OcrVocab ==
    { <<"D", "o", "l", "o", "-">>,
      <<"7", " ", "d", "a", "y", "s">>,
      <<"C", "i", "t", "y", " ", "H", "o", "s", "p", "i", "t", "a", "l">> }

OcrInputs == SeqsUpTo(OcrVocab, MaxOcr)

(***************************************************************************)
(* State machine.                                                          *)
(*   npc: position in clean_ocr_lines ("loop", "returned") and, for the    *)
(*        idempotence check, "renormalised" after a second application.    *)
(*   pc:  position of a request: "idle", "parse" (inside the loop of       *)
(*        parse_prescription, i iterations done), "parsed" (returned).     *)
(*   log: the <<lines, meds>> of every completed extraction run.           *)
(***************************************************************************)
NormalizerOff ==
    /\ raw = <<>> /\ k = 0 /\ cleaned = <<>> /\ merged = <<>> /\ again = <<>>
    /\ npc = "off"

ProcessStart ==
    /\ lines = <<>> /\ i = 0 /\ meds = <<>>
    /\ rng = Seed42
    /\ pc = "idle"
    /\ savings = None
    /\ requests = 0
    /\ log = <<>>

\* ---- clean_ocr_lines ----
InitNormalizer ==
    /\ raw \in RawInputs
    /\ k = 0 /\ cleaned = <<>> /\ merged = <<>> /\ again = <<>>
    /\ npc = "loop"
    /\ ProcessStart

CleanStep ==
    /\ npc = "loop" /\ k < Len(raw)
    /\ LET c == CleanLine(raw[k + 1]) IN
       cleaned' = IF c = None THEN cleaned ELSE Append(cleaned, Val(c))
    /\ k' = k + 1
    /\ UNCHANGED <<raw, merged, again, npc>>
    /\ UNCHANGED pvars

MergePass ==
    /\ npc = "loop" /\ k = Len(raw)
    /\ merged' = MergeFrom(cleaned, 1)
    /\ npc' = "returned"
    /\ UNCHANGED <<raw, k, cleaned, again>>
    /\ UNCHANGED pvars

Renormalise ==
    /\ npc = "returned"
    /\ again' = clean_ocr_lines(merged)
    /\ npc' = "renormalised"
    /\ UNCHANGED <<raw, k, cleaned, merged>>
    /\ UNCHANGED pvars

NextNormalizer == CleanStep \/ MergePass \/ Renormalise

SpecNormalizer == InitNormalizer /\ [][NextNormalizer]_vars

\* ---- parse_prescription ----
ParseCall ==
    /\ pc = "idle" /\ requests = 0
    /\ \E ls \in LineInputs : lines' = ls
    /\ i' = 0 /\ meds' = <<>>
    /\ pc' = "parse"
    /\ requests' = requests + 1
    /\ UNCHANGED <<rng, savings, log>>
    /\ UNCHANGED nvars

ParseStep ==
    /\ pc = "parse" /\ i < Len(lines)
    /\ LET e == Emitted(lines, i, rng) IN
       /\ meds' = meds \o e
       /\ rng' = IF e = <<>> THEN rng
                 ELSE AfterSample(AfterSample(rng, "side_effect_pool"), "avoid_pool")
    /\ i' = i + 1
    /\ UNCHANGED <<lines, pc, savings, requests, log>>
    /\ UNCHANGED nvars

ParseReturn ==
    /\ pc = "parse" /\ i = Len(lines)
    /\ pc' = "parsed"
    /\ log' = Append(log, [lines |-> lines, meds |-> meds])
    /\ UNCHANGED <<lines, i, meds, rng, savings, requests>>
    /\ UNCHANGED nvars

InitExtractor == NormalizerOff /\ ProcessStart

NextExtractor == ParseCall \/ ParseStep \/ ParseReturn

SpecExtractor == InitExtractor /\ [][NextExtractor]_vars

\* ---- analyze(): clean_ocr_lines, parse_prescription, calculate_savings ----
Analyze ==
    /\ pc = "idle" /\ requests < MaxRequests
    /\ \E r \in OcrInputs : raw' = r /\ lines' = clean_ocr_lines(r)
    /\ i' = 0 /\ meds' = <<>>
    /\ pc' = "parse"
    /\ requests' = requests + 1
    /\ UNCHANGED <<rng, savings, log>>
    /\ UNCHANGED <<k, cleaned, merged, again, npc>>

\* the generator state before the m-th multiplier is drawn
RECURSIVE UniformStates(_)
UniformStates(m) ==
    IF m = 0 THEN Seed42 ELSE AfterUniform(UniformStates(m - 1))

RECURSIVE TotalPrice(_)
TotalPrice(ms) == IF ms = <<>> THEN 0 ELSE ms[1].price + TotalPrice(Tail(ms))

calculate_savings ==
    /\ pc = "parsed"
    /\ rng' = UniformStates(Len(meds))
    /\ savings' = Some([total_generic_cost |-> TotalPrice(meds),
                        multipliers |-> [m \in 1..Len(meds) |->
                                            RandomUniform(2, 3, UniformStates(m - 1))]])
    /\ pc' = "idle"
    /\ UNCHANGED <<lines, i, meds, requests, log>>
    /\ UNCHANGED nvars

Init == NormalizerOff /\ ProcessStart

Next == Analyze \/ ParseStep \/ ParseReturn \/ calculate_savings

Spec == Init /\ [][Next]_vars

(***************************************************************************)
(* Properties of clean_ocr_lines (checked under SpecNormalizer).           *)
(***************************************************************************)
Returned == npc \in {"returned", "renormalised"}

\* C4: clean_ocr_lines(clean_ocr_lines(raw)) = clean_ocr_lines(raw): a second
\* normalisation changes nothing.
C4_Idempotent == npc = "renormalised" => again = merged

\* the line as it is after lower/strip, the replacements and the sanitisation
SanitisedForm(line) == Sanitise(ApplyReplacements(strip(lower(line)), 1))

TwoSlots(t) ==
    /\ Len(t) \in {3, 4}
    /\ t[1] \in {"0", "1", "2"} /\ t[2] = "-" /\ t[3] \in {"0", "1", "2"}
    /\ Len(t) = 4 => t[4] = "-"

\* C5: a line whose sanitised form is "d-d" or "d-d-" (d in 0..2) is appended
\* to the cleaned lines as the three-slot pattern "d-d-1".
C5_TimingRepair ==
    [][ (npc = "loop" /\ k' = k + 1 /\ TwoSlots(SanitisedForm(raw[k + 1])))
        => LET t == SanitisedForm(raw[k + 1]) IN
           cleaned' = Append(cleaned, <<t[1], "-", t[3], "-", "1">>) ]_vars

\* positions of cleaned where a merge starts
MergeStarts ==
    {j \in 1..(Len(cleaned) - 1) : isdigit(cleaned[j]) /\ Contains(cleaned[j + 1], <<"d", "a", "y">>)}

\* position in the output of the line that cleaned[j] goes to
OutputPos(j) == j - Cardinality({m \in MergeStarts : m + 1 < j})

\* C6: a purely numeric line directly followed by a line containing "day" is
\* replaced, with that line, by "<number> days"; every other line is kept, in
\* order; the output has one line less per merge.  ["5", "days of rest"] gives
\* ["5 days"] and ["5", "tablets"] stays two lines.
C6_MergePass ==
    Returned =>
        /\ Len(merged) = Len(cleaned) - Cardinality(MergeStarts)
        /\ \A j \in 1..Len(cleaned) :
              /\ j \in MergeStarts
                   => merged[OutputPos(j)] = cleaned[j] \o <<" ", "d", "a", "y", "s">>
              /\ (j \notin MergeStarts /\ (j - 1) \notin MergeStarts)
                   => merged[OutputPos(j)] = cleaned[j]
        /\ raw = << <<"5">>, <<"d", "a", "y", "s", " ", "o", "f", " ", "r", "e", "s", "t">> >>
              => merged = << <<"5", " ", "d", "a", "y", "s">> >>
        /\ raw = << <<"5">>, <<"t", "a", "b", "l", "e", "t", "s">> >>
              => merged = << <<"5">>, <<"t", "a", "b", "l", "e", "t", "s">> >>

\* a merge in the middle of a longer input, and the two examples' first
C6_Witness ==
    /\ npc = "returned"
    /\ Len(cleaned) = 3 /\ MergeStarts = {2}
    /\ merged = <<cleaned[1], cleaned[2] \o <<" ", "d", "a", "y", "s">> >>

NoiseIn(line) ==
    \E g \in 1..Len(garbage_words) :
        \E p \in 1..Len(line) :
            /\ p + Len(garbage_words[g]) - 1 <= Len(line)
            /\ \A q \in 1..Len(garbage_words[g]) :
                  lower_char(line[p + q - 1]) = garbage_words[g][q]

NotNoisy(line) == ~NoiseIn(line)

\* C7: a raw line containing a noise marker (any case, as a substring)
\* contributes nothing to the output, and no output line contains a marker.
C7_NoiseSuppression ==
    /\ \A j \in 1..Len(cleaned) : ~NoiseIn(cleaned[j])
    /\ Returned =>
          /\ \A j \in 1..Len(merged) : ~NoiseIn(merged[j])
          /\ merged = clean_ocr_lines(SelectSeq(raw, NotNoisy))

\* a noisy line between two kept lines has been dropped
C7_Witness ==
    /\ npc = "returned"
    /\ Len(raw) = 3 /\ NoiseIn(raw[2]) /\ ~NoiseIn(raw[1]) /\ ~NoiseIn(raw[3])
    /\ Len(merged) = 2

\* C8: the end-to-end scenario normalises to ["dolo 650", "1-0-1", "5 days"].
C8_EndToEnd ==
    (Returned /\ raw = EndToEndRaw)
        => merged = << <<"d", "o", "l", "o", " ", "6", "5", "0">>,
                       <<"1", "-", "0", "-", "1">>,
                       <<"5", " ", "d", "a", "y", "s">> >>

(***************************************************************************)
(* Properties of parse_prescription (checked under SpecExtractor).         *)
(* Indices are the code's 0-based indices; lines[j] is LineAt(j).          *)
(***************************************************************************)
LineAt(j) == lines[j + 1]

IsMedicine(ix) == find_medicine_name(LineAt(ix)) # None

Forward(ix) == {j \in 0..(Len(lines) - 1) : ix < j /\ j <= ix + 2}
Backward(ix) == {j \in 0..(Len(lines) - 1) : ix - 2 <= j /\ j < ix}
Window(ix) == Forward(ix) \cup Backward(ix)

\* the iteration for index i is taken by this step
Iteration == pc = "parse" /\ i < Len(lines) /\ i' = i + 1

NewRecord == meds'[Len(meds')]

\* lines of S that return something from the detector
TimingFound(S) == {j \in S : detect_timing(LineAt(j)) # None}
DurationFound(S) == {j \in S : detect_duration(LineAt(j)) # None}

\* lines of S that return a duration other than 0
DurationNonZero(S) ==
    {j \in S : detect_duration(LineAt(j)) # None /\ detect_duration(LineAt(j)) # {0}}

Latest(S) == CHOOSE j \in S : \A h \in S : h <= j

\* C1: a medicine line with no timing and no duration in the lines i-2, i-1,
\* i+1, i+2 emits no record; every emitted record has its timing or its
\* duration from one of these lines.
C1_EvidenceGating ==
    [][ (Iteration /\ IsMedicine(i))
        => /\ (TimingFound(Window(i)) = {} /\ DurationFound(Window(i)) = {})
                => meds' = meds
           /\ meds' # meds
                => \E j \in Window(i) :
                      \/ detect_timing(LineAt(j)) = {NewRecord.timing}
                      \/ detect_duration(LineAt(j)) = {NewRecord.duration} ]_vars

\* a medicine between two lines without evidence was passed over, and a later
\* medicine line of the same input, with evidence, is the only record
C1_Witness ==
    /\ pc = "parsed"
    /\ \E a, b \in 0..(Len(lines) - 1) :
          /\ IsMedicine(a) /\ Window(a) # {}
          /\ TimingFound(Window(a)) = {} /\ DurationFound(Window(a)) = {}
          /\ IsMedicine(b) /\ DurationFound(Window(b)) # {}
    /\ Len(meds) = 1

\* C2 as stated: any window line with a detection other than None gives exactly
\* one record, a detected slot holds a detected value, an undetected slot its
\* default.
C2_DefaultFill_AnyDetection ==
    [][ (Iteration /\ IsMedicine(i)
         /\ (TimingFound(Window(i)) # {} \/ DurationFound(Window(i)) # {}))
        => /\ Len(meds') = Len(meds) + 1
           /\ IF TimingFound(Window(i)) # {}
              THEN \E j \in TimingFound(Window(i)) :
                      detect_timing(LineAt(j)) = {NewRecord.timing}
              ELSE NewRecord.timing = <<"1", "-", "0", "-", "1">>
           /\ IF DurationFound(Window(i)) # {}
              THEN \E j \in DurationFound(Window(i)) :
                      detect_duration(LineAt(j)) = {NewRecord.duration}
              ELSE NewRecord.duration = 5 ]_vars

\* C2, amended: a duration of 0 does not count as a detection.  If a window
\* line gives a timing or a duration other than 0, exactly one record is
\* emitted; a slot with such a detection holds one, a slot without holds its
\* default ("1-0-1", 5).
C2_DefaultFill ==
    [][ (Iteration /\ IsMedicine(i)
         /\ (TimingFound(Window(i)) # {} \/ DurationNonZero(Window(i)) # {}))
        => /\ Len(meds') = Len(meds) + 1
           /\ SubSeq(meds', 1, Len(meds)) = meds
           /\ IF TimingFound(Window(i)) # {}
              THEN \E j \in TimingFound(Window(i)) :
                      detect_timing(LineAt(j)) = {NewRecord.timing}
              ELSE NewRecord.timing = <<"1", "-", "0", "-", "1">>
           /\ IF DurationNonZero(Window(i)) # {}
              THEN \E j \in DurationNonZero(Window(i)) :
                      detect_duration(LineAt(j)) = {NewRecord.duration}
              ELSE NewRecord.duration = 5 ]_vars

\* "7 days" after the medicine and no timing in the window: "1-0-1" and 7
C2_Witness ==
    /\ pc = "parse" /\ i >= 1 /\ i < Len(lines)
    /\ IsMedicine(i - 1)
    /\ LineAt(i) = <<"7", " ", "d", "a", "y", "s">>
    /\ TimingFound(Window(i - 1)) = {}
    /\ DurationNonZero(Window(i - 1)) = {i}
    /\ Len(meds) = 1
    /\ meds[1].timing = <<"1", "-", "0", "-", "1">> /\ meds[1].duration = 7

\* C3 as stated: for each slot, the latest forward line with a detection other
\* than None decides; the backward lines only when no forward line has one.
C3_ForwardPriority_AnyDetection ==
    [][ (Iteration /\ IsMedicine(i) /\ meds' # meds)
        => /\ TimingFound(Forward(i)) # {}
                => detect_timing(LineAt(Latest(TimingFound(Forward(i)))))
                     = {NewRecord.timing}
           /\ DurationFound(Forward(i)) # {}
                => detect_duration(LineAt(Latest(DurationFound(Forward(i)))))
                     = {NewRecord.duration}
           /\ (TimingFound(Forward(i)) = {} /\ TimingFound(Backward(i)) # {})
                => \E j \in TimingFound(Backward(i)) :
                      detect_timing(LineAt(j)) = {NewRecord.timing}
           /\ (DurationFound(Forward(i)) = {} /\ DurationFound(Backward(i)) # {})
                => \E j \in DurationFound(Backward(i)) :
                      detect_duration(LineAt(j)) = {NewRecord.duration} ]_vars

\* C3, amended: a duration of 0 does not count as a detection.  For each slot
\* the latest forward line with a detection (other than 0) decides, whatever
\* the backward lines hold; a backward detection is used only when no forward
\* line has one.
C3_ForwardPriority ==
    [][ (Iteration /\ IsMedicine(i) /\ meds' # meds)
        => /\ TimingFound(Forward(i)) # {}
                => detect_timing(LineAt(Latest(TimingFound(Forward(i)))))
                     = {NewRecord.timing}
           /\ DurationNonZero(Forward(i)) # {}
                => detect_duration(LineAt(Latest(DurationNonZero(Forward(i)))))
                     = {NewRecord.duration}
           /\ (TimingFound(Forward(i)) = {} /\ TimingFound(Backward(i)) # {})
                => \E j \in TimingFound(Backward(i)) :
                      detect_timing(LineAt(j)) = {NewRecord.timing}
           /\ (DurationNonZero(Forward(i)) = {} /\ DurationNonZero(Backward(i)) # {})
                => \E j \in DurationNonZero(Backward(i)) :
                      detect_duration(LineAt(j)) = {NewRecord.duration} ]_vars

\* two different timings after the medicine and a third line with a timing
\* before it: the record has the timing of line i+2
C3_Witness ==
    /\ pc = "parse" /\ i >= 2 /\ i + 1 < Len(lines)
    /\ IsMedicine(i - 1)
    /\ TimingFound(Backward(i - 1)) # {}
    /\ TimingFound(Forward(i - 1)) = {i, i + 1}
    /\ detect_timing(LineAt(i)) # detect_timing(LineAt(i + 1))
    /\ \E j \in Backward(i - 1) :
          /\ detect_timing(LineAt(j)) # None
          /\ detect_timing(LineAt(j)) # detect_timing(LineAt(i + 1))
    /\ Len(meds) = 1
    /\ {meds[1].timing} = detect_timing(LineAt(i + 1))

\* C10: every record has a timing d-d-d with d in 0..2 and an integer duration
\* of at least 1; a duration outside 1..30 comes from a line that is not a
\* bare number.
C10_WellFormedRecords ==
    \A m \in 1..Len(meds) :
        /\ Len(meds[m].timing) = 5
        /\ \A q \in {1, 3, 5} : meds[m].timing[q] \in {"0", "1", "2"}
        /\ \A q \in {2, 4} : meds[m].timing[q] = "-"
        /\ meds[m].duration \in Nat /\ meds[m].duration >= 1
        /\ meds[m].duration \notin 1..30
             => \E j \in 0..(Len(lines) - 1) :
                   /\ ~isdigit(LineAt(j))
                   /\ detect_duration(LineAt(j)) = {meds[m].duration}

\* a record whose window holds "0 days", the bare number 12 and the bare
\* number 45: its duration is 12
C10_Witness ==
    /\ pc = "parsed"
    /\ \E j \in 0..(Len(lines) - 1) : detect_duration(LineAt(j)) = {0}
    /\ \E j \in 0..(Len(lines) - 1) : LineAt(j) = <<"4", "5">>
    /\ \E j \in 0..(Len(lines) - 1) : LineAt(j) = <<"1", "2">>
    /\ Len(meds) = 1 /\ meds[1].duration = 12

(***************************************************************************)
(* Reproducibility of the sampled texts (checked under Spec).              *)
(***************************************************************************)
Flavour(ms) == [m \in 1..Len(ms) |-> <<ms[m].side_effects, ms[m].avoid_mixing>>]

\* C9: two extraction runs over the same lines give the same side_effects and
\* avoid_mixing samples; every run starts from the generator state set by
\* random.seed(42).
C9_ReproducibleFlavour ==
    /\ \A a, b \in 1..Len(log) :
          log[a].lines = log[b].lines => Flavour(log[a].meds) = Flavour(log[b].meds)
    /\ (pc = "parse" /\ i = 0) => rng = Seed42

====
